---- MODULE Spec2Model ----
(***************************************************************************)
(* Model of the CMIP6 CV -> JSON-schema exporter (src/src/cv2schema.py and *)
(* its older variant src/src/export_schema.py).                            *)
(*                                                                         *)
(* JSON values are records [t, s, l, m]:                                   *)
(*   t = "str"  : the string s                                             *)
(*   t = "list" : the list l of strings                                    *)
(*   t = "map"  : the object whose members, in insertion order, are the    *)
(*                records [k, v] of the sequence m (Python dict order)     *)
(*   t = "num"  : a number (any value that is neither str, list nor dict)  *)
(* A schema fragment is a TLA+ record with the keys of the Python dict.    *)
(***************************************************************************)
EXTENDS Integers, Sequences, FiniteSets, TLC

VARIABLES
  \* a caller holding one CV document object and passing it to the converters
  facet,      \* the facet the document was read for
  cv0,        \* the document as parsed (an equal copy, never passed to a call)
  cv,         \* the document object the calls receive (mutated by them)
  callee,     \* which function the last call went to
  mode,       \* the enum argument of the last call
  ret,        \* what the last call did: [exc, out]
  calls,      \* number of calls made on the object
  \* one call of make_global_attrs_schema(prefix, enum)
  files,      \* the CV directory: key -> file
  prefix, enum,
  pc,         \* "idle" | "start" | "loop" | "done"
  reqs,       \* the required list read at line 57
  i,          \* 1-based position of the loop at line 79
  props,      \* the local dict props
  schema,     \* the local dict schema
  outcome,    \* "running" | "returned" | "raised"
  exc,        \* the exception that left the function, "none" otherwise
  \* concurrent runs of create_json_schema
  rpc,        \* run -> "build" | "open" | "write" | "done" | "raised"
  rschema,    \* run -> the schema its build returned
  rpos,       \* run -> its file offset, in chunks
  outfile     \* ../cmip6-global-attrs-schema.json: a sequence of chunks

cvVars == <<facet, cv0, cv, callee, mode, ret, calls>>
buildVars == <<prefix, enum, pc, reqs, i, props, schema, outcome, exc>>
runVars == <<rpc, rschema, rpos, outfile>>
vars == <<facet, cv0, cv, callee, mode, ret, calls, files, prefix, enum, pc, reqs, i,
          props, schema, outcome, exc, rpc, rschema, rpos, outfile>>

\* ------------------------------------------------------------------ bounds
MaxEntries == 2
MaxReqs == 2
MaxCalls == 2
NumRuns == 2
NumChunks == 2

\* -------------------------------------------------------------- JSON values
JStr(s) == [t |-> "str", s |-> s, l |-> <<>>, m |-> <<>>]
JList(l) == [t |-> "list", s |-> "", l |-> l, m |-> <<>>]
JMap(m) == [t |-> "map", s |-> "", l |-> <<>>, m |-> m]
JNum == [t |-> "num", s |-> "", l |-> <<>>, m |-> <<>>]
Member(k, v) == [k |-> k, v |-> v]

\* dict helpers on member sequences
Keys(m) == {m[j].k : j \in 1..Len(m)}
HasKey(m, k) == k \in Keys(m)
Lookup(m, k) == m[CHOOSE j \in 1..Len(m) : m[j].k = k].v
Get(m, k, default) == IF HasKey(m, k) THEN Lookup(m, k) ELSE default
Pop(m, k) == SelectSeq(m, LAMBDA e : e.k # k)

VersionMember == Member("version_metadata", JMap(<<Member("CV_collection_version", JStr("6.2"))>>))

\* ---------------------------------------------------------- cv_to_property
fieldSwapped == [source_id |-> "description", experiment_id |-> "label"]

\* the static display-field table
field == [source_id |-> "label", experiment_id |-> "description"]

RECURSIVE BuildItems(_, _, _)
\* the loop over a mapping payload: one {const, title} per str or dict entry;
\* field[fid] raises KeyError when a dict entry meets a facet not in the table
BuildItems(fid, entries, lenient) ==
  IF entries = <<>> THEN [exc |-> "none", items |-> <<>>]
  ELSE LET e == Head(entries)
           rest == BuildItems(fid, Tail(entries), lenient)
       IN IF e.v.t = "str"
            THEN IF rest.exc # "none" THEN rest
                 ELSE [exc |-> "none",
                       items |-> <<[const |-> e.k, title |-> e.v.s]>> \o rest.items]
          ELSE IF e.v.t = "map"
            THEN IF fid \notin DOMAIN field THEN [exc |-> "KeyError", items |-> <<>>]
                 ELSE IF lenient
                   THEN IF rest.exc # "none" THEN rest
                        ELSE [exc |-> "none",
                              items |-> <<[const |-> e.k,
                                           title |-> Get(e.v.m, field[fid], JStr("")).s]>>
                                        \o rest.items]
                 ELSE IF ~HasKey(e.v.m, field[fid]) THEN [exc |-> "KeyError", items |-> <<>>]
                 ELSE IF rest.exc # "none" THEN rest
                 ELSE [exc |-> "none",
                       items |-> <<[const |-> e.k, title |-> Lookup(e.v.m, field[fid]).s]>>
                                 \o rest.items]
          ELSE rest

ConstsOf(items) == [j \in 1..Len(items) |-> items[j].const]

EnumFragmentTitles(items) == [enum |-> [j \in 1..Len(items) |-> items[j].title]]

EnumFragment(items) == [enum |-> ConstsOf(items)]

OneOfFragment(items) == [oneOf |-> items]

\* lines 121-136: the fragment of the (at most one) payload member
PayloadToOut(payload, en, lenient) ==
  IF payload = <<>> THEN [exc |-> "none", out |-> <<>>]
  ELSE LET fid == payload[1].k
           keys == payload[1].v
       IN IF keys.t = "map"
            THEN LET b == BuildItems(fid, keys.m, lenient)
                 IN IF b.exc # "none" THEN [exc |-> b.exc, out |-> <<>>]
                    ELSE [exc |-> "none",
                          out |-> <<Member(fid, IF en THEN EnumFragment(b.items)
                                                ELSE OneOfFragment(b.items))>>]
          ELSE IF keys.t = "list"
            THEN [exc |-> "none", out |-> <<Member(fid, [enum |-> keys.l])>>]
          ELSE [exc |-> "none", out |-> <<>>]

PopVersionDefault(doc) == [exc |-> "none", cv |-> Pop(doc, "version_metadata")]

\* cv.pop("version_metadata"): the dict after the call, KeyError when absent
PopVersion(doc) ==
  IF HasKey(doc, "version_metadata")
    THEN [exc |-> "none", cv |-> Pop(doc, "version_metadata")]
  ELSE [exc |-> "KeyError", cv |-> doc]

\* cv2schema.cv_to_property(cv, enum): [exc, out, cv] with cv the argument
\* object as the call leaves it
cv_to_property(doc, en) ==
  LET p == PopVersion(doc)
  IN IF p.exc # "none" THEN [exc |-> p.exc, out |-> <<>>, cv |-> p.cv]
     ELSE IF Len(p.cv) > 1 THEN [exc |-> "ValueError", out |-> <<>>, cv |-> p.cv]
     ELSE LET r == PayloadToOut(p.cv, en, TRUE)
          IN [exc |-> r.exc, out |-> r.out, cv |-> p.cv]

\* export_schema.cv_to_property(cv): always oneOf, value[field[fid]] raises
export_cv_to_property(doc) ==
  LET p == PopVersion(doc)
  IN IF p.exc # "none" THEN [exc |-> p.exc, out |-> <<>>, cv |-> p.cv]
     ELSE IF Len(p.cv) > 1 THEN [exc |-> "ValueError", out |-> <<>>, cv |-> p.cv]
     ELSE LET r == PayloadToOut(p.cv, FALSE, FALSE)
          IN [exc |-> r.exc, out |-> r.out, cv |-> p.cv]

\* ------------------------------------------------------------------ read_cv
\* a file of the CV directory
AbsentFile == [kind |-> "absent", doc |-> <<>>]
GarbageFile == [kind |-> "garbage", doc |-> <<>>]
JsonFile(doc) == [kind |-> "json", doc |-> doc]

\* read_cv(key): open() raises FileNotFoundError, json.load raises
\* JSONDecodeError, otherwise a freshly parsed document object
read_cv(fs, key) ==
  IF fs[key].kind = "absent" THEN [exc |-> "FileNotFoundError", cv |-> <<>>]
  ELSE IF fs[key].kind = "garbage" THEN [exc |-> "JSONDecodeError", cv |-> <<>>]
  ELSE [exc |-> "none", cv |-> fs[key].doc]

\* ------------------------------------------------ make_global_attrs_schema
integer_fields == <<"initialization_index", "physics_index", "realization_index",
                    "forcing_index">>

formats == [creation_date |-> "date-time", further_info_url |-> "uri"]

InList(x, l) == \E j \in 1..Len(l) : l[j] = x

\* line 54: prefix = prefix + ":" if prefix else ""
NormPrefix(p) == IF p = "None" \/ p = "" THEN "" ELSE p \o ":"

\* d[k] = v on a dict d held as a function
SetItem(d, k, v) == [n \in DOMAIN d \cup {k} |-> IF n = k THEN v ELSE d[n]]

RECURSIVE StoreOut(_, _, _)
\* lines 88-89: props[prefix + key] = val for every item of the converted CV
StoreOut(d, pfx, out) ==
  IF out = <<>> THEN d
  ELSE StoreOut(SetItem(d, pfx \o Head(out).k, Head(out).v), pfx, Tail(out))

\* lines 88-91 on a document object already read: the conversion, its
\* KeyError handler, and the ValueError the handler does not name
TryConvert(fid, doc, pfx, en, d) ==
  LET c == cv_to_property(doc, en)
  IN IF c.exc = "none" THEN [exc |-> "none", props |-> StoreOut(d, pfx, c.out)]
     ELSE IF c.exc = "KeyError"
       THEN [exc |-> "none", props |-> SetItem(d, pfx \o fid, [type |-> "string"])]
     ELSE [exc |-> c.exc, props |-> d]

TryBlockNoHandler(fid, fs, pfx, en, d) ==
  LET r == read_cv(fs, fid)
  IN IF r.exc # "none" THEN [exc |-> r.exc, props |-> d]
     ELSE TryConvert(fid, r.cv, pfx, en, d)

\* lines 86-91: try: read_cv + conversion, except (FileNotFoundError, KeyError)
TryBlock(fid, fs, pfx, en, d) ==
  LET r == read_cv(fs, fid)
  IN IF r.exc = "FileNotFoundError"
       THEN [exc |-> "none", props |-> SetItem(d, pfx \o fid, [type |-> "string"])]
     ELSE IF r.exc # "none" THEN [exc |-> r.exc, props |-> d]
     ELSE TryConvert(fid, r.cv, pfx, en, d)

\* lines 80-91: the classification of one facet
Classify(fid, fs, pfx, en, d) ==
  IF InList(fid, integer_fields)
    THEN [exc |-> "none", props |-> SetItem(d, pfx \o fid, [type |-> "integer"])]
  ELSE IF fid = "mip_era"
    THEN [exc |-> "none", props |-> SetItem(d, "mip_era", [const |-> "CMIP6"])]
  ELSE TryBlock(fid, fs, pfx, en, d)

\* lines 93-94: props[prefix + fid]["format"] = formats[fid]
Overlay(fid, pfx, d) ==
  IF fid \notin DOMAIN formats THEN [exc |-> "none", props |-> d]
  ELSE IF pfx \o fid \notin DOMAIN d THEN [exc |-> "KeyError", props |-> d]
  ELSE [exc |-> "none",
        props |-> SetItem(d, pfx \o fid, SetItem(d[pfx \o fid], "format", formats[fid]))]

\* lines 79-94: one iteration of the loop
LoopBody(fid, fs, pfx, en, d) ==
  LET c == Classify(fid, fs, pfx, en, d)
  IN IF c.exc # "none" THEN c ELSE Overlay(fid, pfx, c.props)

\* line 57: read_cv("required_global_attributes")["required_global_attributes"]
ReadRequiredList(fs) ==
  LET r == read_cv(fs, "required_global_attributes")
  IN IF r.exc # "none" THEN [exc |-> r.exc, reqs |-> <<>>]
     ELSE IF ~HasKey(r.cv, "required_global_attributes")
       THEN [exc |-> "KeyError", reqs |-> <<>>]
     ELSE [exc |-> "none", reqs |-> Lookup(r.cv, "required_global_attributes").l]

\* line 66
RequiredKeys(pfx, rs) == [j \in 1..Len(rs) |-> pfx \o rs[j]]

\* lines 59-67: the schema skeleton; the dict is a function on its keys
NewSchema(pfx, rs) ==
  [n \in {"$schema", "$id", "title", "description", "type", "properties", "required"} |->
     CASE n = "$schema" -> "http://json-schema.org/draft-07/schema#"
       [] n = "$id" -> "cmip6-global-attrs-schema.json#"
       [] n = "title" -> "CMIP6 metadata schema for global attributes"
       [] n = "description" -> "JSON schema for global attributes metadata of CMIP6 datasets. This schema is automatically generated from the CVs. Manual edits will be overwritten."
       [] n = "type" -> "object"
       [] n = "properties" -> <<>>
       [] n = "required" -> RequiredKeys(pfx, rs)]

\* line 96: schema["properties"].update(props)
UpdateProperties(sch, d) == [sch EXCEPT !["properties"] = d]

RECURSIVE RunLoop(_, _, _, _, _)
\* lines 79-94 run to the end or to the first exception
RunLoop(rs, fs, pfx, en, d) ==
  IF rs = <<>> THEN [exc |-> "none", props |-> d]
  ELSE LET b == LoopBody(Head(rs), fs, pfx, en, d)
       IN IF b.exc # "none" THEN b ELSE RunLoop(Tail(rs), fs, pfx, en, b.props)

\* make_global_attrs_schema(prefix, enum) as one call: [exc, schema]
make_global_attrs_schema(p, en, fs) ==
  LET pfx == NormPrefix(p)
      r == ReadRequiredList(fs)
  IN IF r.exc # "none" THEN [exc |-> r.exc, schema |-> <<>>]
     ELSE LET l == RunLoop(r.reqs, fs, pfx, en, <<>>)
          IN IF l.exc # "none" THEN [exc |-> l.exc, schema |-> <<>>]
             ELSE [exc |-> "none", schema |-> UpdateProperties(NewSchema(pfx, r.reqs), l.props)]

\* ------------------------------------------------------- create_json_schema
\* json.dump(schema, f): the text reaches the file in NumChunks buffer flushes
Chunk(sch, j) == [part |-> j, text |-> sch]

Hole == [part |-> 0, text |-> <<>>]

StaleChunk == [part |-> -1, text |-> <<>>]

\* write(2) at a file offset: past the end the gap reads as zero bytes
WriteAt(f, pos, c) ==
  IF pos <= Len(f) THEN [f EXCEPT ![pos] = c]
  ELSE f \o [j \in 1..(pos - Len(f) - 1) |-> Hole] \o <<c>>

TruncateNone(f) == f

\* open(path, "w"): O_TRUNC
Truncate(f) == <<>>

\* ------------------------------------------------------------------ inputs
Runs == 1..NumRuns

CvFacets == {"source_id", "experiment_id", "activity_id"}

EntryValues ==
  {JStr("title"), JMap(<<Member("label", JStr("L"))>>),
   JMap(<<Member("description", JStr("D"))>>), JNum}

\* mapping payloads of up to n entries, codes c1, c2, ... in insertion order
MapsUpTo(n) ==
  UNION {{[j \in 1..len |-> Member("c" \o ToString(j), vs[j])] :
            vs \in [1..len -> EntryValues]} : len \in 0..n}

SomeList == JList(<<"a", "b">>)

PayloadValues == {JMap(m) : m \in MapsUpTo(MaxEntries)} \cup {SomeList, JStr("x")}

WithVersion(payload, vm) == IF vm THEN payload \o <<VersionMember>> ELSE payload

\* the documents a caller may hold for facet f
DocsFor(f) ==
  {WithVersion(pl, vm) :
     pl \in {<<Member(f, v)>> : v \in PayloadValues}
            \cup {<<>>, <<Member(f, SomeList), Member("extra", SomeList)>>},
     vm \in BOOLEAN}

\* representative files of facet f in the CV directory
StrMapDoc(f) ==
  <<Member(f, JMap(<<Member("c1", JStr("t1")), Member("c2", JStr("t2"))>>)), VersionMember>>
DictMapDoc(f) ==
  <<Member(f, JMap(<<Member("c1", JMap(<<Member("label", JStr("L")),
                                         Member("description", JStr("D"))>>)),
                     Member("c2", JMap(<<Member("institution_id", JStr("I"))>>))>>)),
    VersionMember>>
ListDoc(f) == <<Member(f, SomeList), VersionMember>>
TwoKeysDoc(f) == <<Member(f, SomeList), Member("extra", SomeList), VersionMember>>
NoVersionDoc(f) == <<Member(f, SomeList)>>
EmptyDoc == <<VersionMember>>

FixedFacets == {"realization_index", "mip_era"}
CvBackedFacets == {"creation_date", "further_info_url", "activity_id"}
BuildFacets == FixedFacets \cup CvBackedFacets

AllShapes ==
  {"absent", "garbage", "strmap", "dictmap", "list", "twokeys", "noversion", "empty"}

ShapesOf(f) == IF f \in FixedFacets THEN {"absent", "garbage", "strmap"} ELSE AllShapes

FileOf(f, shape) ==
  CASE shape = "absent" -> AbsentFile
    [] shape = "garbage" -> GarbageFile
    [] shape = "strmap" -> JsonFile(StrMapDoc(f))
    [] shape = "dictmap" -> JsonFile(DictMapDoc(f))
    [] shape = "list" -> JsonFile(ListDoc(f))
    [] shape = "twokeys" -> JsonFile(TwoKeysDoc(f))
    [] shape = "noversion" -> JsonFile(NoVersionDoc(f))
    [] shape = "empty" -> JsonFile(EmptyDoc)

\* required lists: up to MaxReqs distinct facets
ReqLists ==
  UNION {{l \in [1..n -> BuildFacets] : \A a, b \in 1..n : a # b => l[a] # l[b]} :
           n \in 0..MaxReqs}

ReqMember(l) == Member("required_global_attributes", JList(l))

TopFilesFor(l) ==
  {JsonFile(<<ReqMember(l), VersionMember>>),
   JsonFile(<<ReqMember(l), Member("extra", SomeList), VersionMember>>)}

FatalTopFiles == {AbsentFile, GarbageFile, JsonFile(EmptyDoc)}

AllKeys == BuildFacets \cup {"required_global_attributes"}

Elems(l) == {l[j] : j \in 1..Len(l)}

\* a CV directory: the top-level file, one file per listed facet, nothing else
DirWith(top, l, pick) ==
  [k \in AllKeys |-> IF k = "required_global_attributes" THEN top
                     ELSE IF InList(k, l) THEN FileOf(k, pick[k]) ELSE AbsentFile]

PicksFor(l) == {q \in [Elems(l) -> AllShapes] : \A k \in Elems(l) : q[k] \in ShapesOf(k)}

Prefixes == {"None", "", "ds"}

\* ------------------------------------------------------------ specifications
NoRet == [exc |-> "none", out |-> <<>>, props |-> <<>>]

CvIdle ==
  /\ facet = "none" /\ cv0 = <<>> /\ cv = <<>> /\ callee = "none"
  /\ mode = FALSE /\ ret = NoRet /\ calls = 0

BuildIdle ==
  /\ prefix = "None" /\ enum = FALSE /\ pc = "idle" /\ reqs = <<>> /\ i = 0
  /\ props = <<>> /\ schema = <<>> /\ outcome = "running" /\ exc = "none"

RunsIdle ==
  /\ rpc = [r \in Runs |-> "idle"] /\ rschema = [r \in Runs |-> <<>>]
  /\ rpos = [r \in Runs |-> 0] /\ outfile = <<>>

NoDirectory == [k \in AllKeys |-> AbsentFile]

\* --- a caller with one document object
InitCV ==
  /\ facet \in CvFacets
  /\ cv0 \in DocsFor(facet)
  /\ cv = cv0
  /\ callee = "none" /\ mode = FALSE /\ ret = NoRet /\ calls = 0
  /\ files = NoDirectory
  /\ BuildIdle /\ RunsIdle

\* cv2schema.cv_to_property(cv, enum=en)
CallCvToProperty ==
  /\ calls < MaxCalls
  /\ \E en \in BOOLEAN :
       LET c == cv_to_property(cv, en)
       IN /\ cv' = c.cv
          /\ ret' = [exc |-> c.exc, out |-> c.out, props |-> <<>>]
          /\ mode' = en
  /\ callee' = "cv2schema"
  /\ calls' = calls + 1
  /\ UNCHANGED <<facet, cv0, files>>
  /\ UNCHANGED buildVars /\ UNCHANGED runVars

\* export_schema.cv_to_property(cv)
CallExportCvToProperty ==
  /\ calls < MaxCalls
  /\ LET c == export_cv_to_property(cv)
     IN /\ cv' = c.cv
        /\ ret' = [exc |-> c.exc, out |-> c.out, props |-> <<>>]
  /\ mode' = FALSE
  /\ callee' = "export_schema"
  /\ calls' = calls + 1
  /\ UNCHANGED <<facet, cv0, files>>
  /\ UNCHANGED buildVars /\ UNCHANGED runVars

\* the builder's conversion of the object (cv2schema lines 88-91), no prefix
CallTryConvert ==
  /\ calls < MaxCalls
  /\ \E en \in BOOLEAN :
       LET t == TryConvert(facet, cv, "", en, <<>>)
       IN /\ cv' = cv_to_property(cv, en).cv
          /\ ret' = [exc |-> t.exc, out |-> <<>>, props |-> t.props]
          /\ mode' = en
  /\ callee' = "builder"
  /\ calls' = calls + 1
  /\ UNCHANGED <<facet, cv0, files>>
  /\ UNCHANGED buildVars /\ UNCHANGED runVars

NextCV == CallCvToProperty \/ CallExportCvToProperty \/ CallTryConvert

SpecCV == InitCV /\ [][NextCV]_vars

\* --- one call of make_global_attrs_schema
Init ==
  /\ \/ \E top \in FatalTopFiles : files = DirWith(top, <<>>, <<>>)
     \/ \E l \in ReqLists : \E top \in TopFilesFor(l) : \E pick \in PicksFor(l) :
          files = DirWith(top, l, pick)
  /\ prefix \in Prefixes
  /\ enum \in BOOLEAN
  /\ pc = "start" /\ reqs = <<>> /\ i = 0 /\ props = <<>> /\ schema = <<>>
  /\ outcome = "running" /\ exc = "none"
  /\ CvIdle /\ RunsIdle

\* lines 54-67
ReadRequired ==
  /\ pc = "start"
  /\ LET r == ReadRequiredList(files)
     IN IF r.exc # "none"
          THEN /\ pc' = "done" /\ outcome' = "raised" /\ exc' = r.exc
               /\ UNCHANGED <<reqs, i, props, schema>>
        ELSE /\ pc' = "loop" /\ reqs' = r.reqs /\ i' = 1
             /\ schema' = NewSchema(NormPrefix(prefix), r.reqs)
             /\ props' = <<>>
             /\ UNCHANGED <<outcome, exc>>
  /\ UNCHANGED <<files, prefix, enum>>
  /\ UNCHANGED cvVars /\ UNCHANGED runVars

\* lines 79-94, one facet
LoopStep ==
  /\ pc = "loop" /\ i <= Len(reqs)
  /\ LET b == LoopBody(reqs[i], files, NormPrefix(prefix), enum, props)
     IN IF b.exc # "none"
          THEN /\ pc' = "done" /\ outcome' = "raised" /\ exc' = b.exc
               /\ UNCHANGED <<i, props>>
        ELSE /\ props' = b.props /\ i' = i + 1
             /\ UNCHANGED <<pc, outcome, exc>>
  /\ UNCHANGED <<files, prefix, enum, reqs, schema>>
  /\ UNCHANGED cvVars /\ UNCHANGED runVars

\* lines 96-98
Return ==
  /\ pc = "loop" /\ i > Len(reqs)
  /\ schema' = UpdateProperties(schema, props)
  /\ pc' = "done" /\ outcome' = "returned"
  /\ UNCHANGED <<files, prefix, enum, reqs, i, props, exc>>
  /\ UNCHANGED cvVars /\ UNCHANGED runVars

Next == ReadRequired \/ LoopStep \/ Return

Spec == Init /\ [][Next]_vars

\* --- concurrent runs of create_json_schema
RunDirectories ==
  {DirWith(top, <<"activity_id", "mip_era">>, [k \in {"activity_id", "mip_era"} |-> sh]) :
     top \in TopFilesFor(<<"activity_id", "mip_era">>) \cup {AbsentFile},
     sh \in {"absent", "strmap", "garbage"}}

Stale == [j \in 1..(NumChunks + 1) |-> StaleChunk]

InitRuns ==
  /\ files \in RunDirectories
  /\ outfile \in {<<>>, Stale}
  /\ rpc = [r \in Runs |-> "build"]
  /\ rschema = [r \in Runs |-> <<>>]
  /\ rpos = [r \in Runs |-> 0]
  /\ CvIdle /\ BuildIdle

\* line 178: schema = make_global_attrs_schema(enum=True)
Build(r) ==
  /\ rpc[r] = "build"
  /\ \E b \in {make_global_attrs_schema("None", TRUE, files)} :
       IF b.exc # "none"
         THEN /\ rpc' = [rpc EXCEPT ![r] = "raised"]
              /\ UNCHANGED rschema
       ELSE /\ rpc' = [rpc EXCEPT ![r] = "open"]
            /\ rschema' = [rschema EXCEPT ![r] = b.schema]
  /\ UNCHANGED <<rpos, outfile, files>>
  /\ UNCHANGED cvVars /\ UNCHANGED buildVars

\* line 179: open(..., "w")
Open(r) ==
  /\ rpc[r] = "open"
  /\ outfile' = Truncate(outfile)
  /\ rpos' = [rpos EXCEPT ![r] = 0]
  /\ rpc' = [rpc EXCEPT ![r] = "write"]
  /\ UNCHANGED <<rschema, files>>
  /\ UNCHANGED cvVars /\ UNCHANGED buildVars

\* line 180: json.dump, one buffer flush
Write(r) ==
  /\ rpc[r] = "write" /\ rpos[r] < NumChunks
  /\ outfile' = WriteAt(outfile, rpos[r] + 1, Chunk(rschema[r], rpos[r] + 1))
  /\ rpos' = [rpos EXCEPT ![r] = rpos[r] + 1]
  /\ UNCHANGED <<rpc, rschema, files>>
  /\ UNCHANGED cvVars /\ UNCHANGED buildVars

\* leaving the with block: close
Close(r) ==
  /\ rpc[r] = "write" /\ rpos[r] = NumChunks
  /\ rpc' = [rpc EXCEPT ![r] = "done"]
  /\ UNCHANGED <<rschema, rpos, outfile, files>>
  /\ UNCHANGED cvVars /\ UNCHANGED buildVars

NextRuns == \E r \in Runs : Build(r) \/ Open(r) \/ Write(r) \/ Close(r)

SpecRuns == InitRuns /\ [][NextRuns]_vars

\* ------------------------------------------------------------------- claims
Payload(doc) == Pop(doc, "version_metadata")

IsMappingDoc(doc) == Len(Payload(doc)) = 1 /\ Payload(doc)[1].v.t = "map"

Entries(doc) == Payload(doc)[1].v.m

FirstDirectCall == calls = 1 /\ callee = "cv2schema"

\* C5: for a document whose payload is a mapping, the const values of the
\* oneOf fragment (enum=False) are, in order, the enum list produced with
\* enum=True on an equal document, and one mode raises iff the other does.
C5_EnumOneOfIsomorphic ==
  (FirstDirectCall /\ IsMappingDoc(cv0)) =>
    LET other == cv_to_property(cv0, ~mode)
        asOneOf == IF mode THEN other.out ELSE ret.out
        asEnum == IF mode THEN ret.out ELSE other.out
    IN /\ (ret.exc = "none") <=> (other.exc = "none")
       /\ ret.exc = "none" =>
            /\ Len(asOneOf) = 1 /\ Len(asEnum) = 1
            /\ asOneOf[1].k = asEnum[1].k
            /\ DOMAIN asOneOf[1].v = {"oneOf"}
            /\ DOMAIN asEnum[1].v = {"enum"}
            /\ ConstsOf(asOneOf[1].v.oneOf) = asEnum[1].v.enum

C5_Witness ==
  /\ FirstDirectCall /\ IsMappingDoc(cv0) /\ ~mode /\ ret.exc = "none"
  /\ Len(Entries(cv0)) >= 2
  /\ \E j \in 1..Len(Entries(cv0)) : Entries(cv0)[j].v.t = "map"
  /\ Len(ret.out[1].v.oneOf) >= 2

DisplayFieldOf(f) == IF f = "source_id" THEN "label" ELSE "description"

ExpectedTitle(f, v) ==
  IF v.t = "str" THEN v.s
  ELSE IF \E j \in 1..Len(v.m) : v.m[j].k = DisplayFieldOf(f)
    THEN (v.m[CHOOSE j \in 1..Len(v.m) : v.m[j].k = DisplayFieldOf(f)]).v.s
  ELSE ""

C8_Precondition ==
  /\ FirstDirectCall /\ ~mode
  /\ HasKey(cv0, "version_metadata") /\ IsMappingDoc(cv0)
  /\ \A j \in 1..Len(Entries(cv0)) : Entries(cv0)[j].v.t \in {"str", "map"}
  /\ \/ facet \in {"source_id", "experiment_id"}
     \/ \A j \in 1..Len(Entries(cv0)) : Entries(cv0)[j].v.t = "str"

DirectCall == callee \in {"cv2schema", "export_schema"}

StringFallback == [type |-> "string"]

\* C10: cv_to_property removes version_metadata from the document object it
\* is given, so a second call on the same object raises KeyError instead of
\* returning a fragment; a document that never carried version_metadata
\* raises KeyError on the first call, which the builder's handler turns into
\* the {"type": "string"} fallback for the facet.
C10_PopMutatesDocument ==
  /\ calls >= 1 => cv = Pop(cv0, "version_metadata")
  /\ (calls >= 2 /\ DirectCall) => (ret.exc = "KeyError" /\ ret.out = <<>>)
  /\ (calls = 1 /\ DirectCall /\ ~HasKey(cv0, "version_metadata")) =>
       (ret.exc = "KeyError" /\ ret.out = <<>> /\ cv = cv0)
  /\ (callee = "builder" /\ (calls >= 2 \/ ~HasKey(cv0, "version_metadata"))) =>
       (ret.exc = "none" /\ ret.props = (facet :> StringFallback))

C10_Witness ==
  /\ calls = 2 /\ callee = "cv2schema"
  /\ HasKey(cv0, "version_metadata") /\ ~HasKey(cv, "version_metadata")
  /\ cv_to_property(cv0, mode).exc = "none" /\ cv_to_property(cv0, mode).out # <<>>
  /\ ret.exc = "KeyError"

\* ---- claims about make_global_attrs_schema
Pfx == NormPrefix(prefix)

Returned == pc = "done" /\ outcome = "returned"

Raised == pc = "done" /\ outcome = "raised"

\* the build stopped with an exception while classifying the j-th facet
RaisedAt(j) == Raised /\ i = j

Properties == schema["properties"]

IndexFacets ==
  {"initialization_index", "physics_index", "realization_index", "forcing_index"}

IsFixedShape(f) == f \in IndexFacets \/ f = "mip_era"

ExpectedFormat(f) ==
  IF f = "creation_date" THEN "date-time" ELSE IF f = "further_info_url" THEN "uri" ELSE ""

ExpectedFallback(f) ==
  IF ExpectedFormat(f) = "" THEN [type |-> "string"]
  ELSE [type |-> "string", format |-> ExpectedFormat(f)]

\* C1: every entry of the returned schema's required array is a key of its
\* properties object.
C1_RequiredKeysAligned ==
  Returned =>
    \A j \in 1..Len(schema["required"]) : schema["required"][j] \in DOMAIN Properties

MoreThanOnePayloadKey(f) == files[f].kind = "json" /\ Len(Payload(files[f].doc)) > 1

DisplayLookupFails(f) ==
  /\ files[f].kind = "json" /\ IsMappingDoc(files[f].doc)
  /\ \E j \in 1..Len(Entries(files[f].doc)) : Entries(files[f].doc)[j].v.t = "map"
  /\ f \notin {"source_id", "experiment_id"}

MalformedCV(f) ==
  /\ ~IsFixedShape(f)
  /\ files[f].kind = "json" /\ HasKey(files[f].doc, "version_metadata")
  /\ MoreThanOnePayloadKey(f) \/ DisplayLookupFails(f)

\* C2: a facet whose CV is malformed (more than one payload key, or a
\* mapping entry whose display-field lookup fails) does not abort the
\* build and gets the fragment {"type": "string"}.
C2_MalformedDegradesToString ==
  pc = "done" =>
    \A j \in 1..Len(reqs) :
      MalformedCV(reqs[j]) =>
        /\ ~RaisedAt(j)
        /\ Returned => /\ (Pfx \o reqs[j]) \in DOMAIN Properties
                       /\ Properties[Pfx \o reqs[j]] = ExpectedFallback(reqs[j])

AbsentCV(f) == ~IsFixedShape(f) /\ files[f].kind = "absent"

SameElsewhere(a, b, key) ==
  /\ DOMAIN a \ {key} = DOMAIN b \ {key}
  /\ \A k \in DOMAIN a \ {key} : a[k] = b[k]

\* C3: a required facet that is neither index-valued nor mip_era and whose
\* CV file does not exist never makes the build raise; its property is
\* {"type": "string"} (plus its format), and every other property is what it
\* would be with any file present for that facet.
C3_AbsentFileDegrades ==
  pc = "done" =>
    \A j \in 1..Len(reqs) :
      AbsentCV(reqs[j]) =>
        /\ ~RaisedAt(j)
        /\ Returned => /\ (Pfx \o reqs[j]) \in DOMAIN Properties
                       /\ Properties[Pfx \o reqs[j]] = ExpectedFallback(reqs[j])
        /\ \A sh \in ShapesOf(reqs[j]) :
             LET alt == make_global_attrs_schema(prefix, enum,
                          [files EXCEPT ![reqs[j]] = FileOf(reqs[j], sh)])
             IN alt.exc = "none" =>
                  /\ Returned
                  /\ SameElsewhere(Properties, alt.schema["properties"], Pfx \o reqs[j])
                  /\ schema["required"] = alt.schema["required"]

C3_Witness ==
  /\ Returned /\ Len(reqs) = 2 /\ prefix = "ds"
  /\ AbsentCV(reqs[1]) /\ files[reqs[2]].kind = "json"
  /\ Properties[Pfx \o reqs[1]] = [type |-> "string"]
  /\ (Pfx \o reqs[2]) \in DOMAIN Properties
  /\ "oneOf" \in DOMAIN Properties[Pfx \o reqs[2]]

TopFile == files["required_global_attributes"]

TopFatal ==
  \/ TopFile.kind \in {"absent", "garbage"}
  \/ TopFile.kind = "json" /\ Len(Payload(TopFile.doc)) # 1

ParseErrorRead ==
  pc = "done" /\ \E j \in 1..Len(reqs) :
    /\ ~IsFixedShape(reqs[j]) /\ files[reqs[j]].kind = "garbage"
    /\ (Raised => j <= i)

CompleteSchema ==
  /\ DOMAIN schema = {"$schema", "$id", "title", "description", "type", "properties",
                      "required"}
  /\ schema["required"] = [j \in 1..Len(reqs) |-> Pfx \o reqs[j]]
  /\ \A j \in 1..Len(reqs) : (Pfx \o reqs[j]) \in DOMAIN Properties

\* C4: a Parse error on any CV read, and a missing or malformed top-level
\* required_global_attributes CV, make the call raise; every call ends either
\* with a raised error or with a complete schema (one fragment per required
\* key), never with a partially populated one.
C4_FatalOrComplete ==
  pc = "done" =>
    /\ TopFatal => Raised
    /\ ParseErrorRead => Raised
    /\ Raised \/ (Returned /\ CompleteSchema)

\* C6: an index facet in the required list always has the fragment
\* {"type": "integer"} and mip_era always has {"const": "CMIP6"}, whatever
\* CV file exists for the key, in either enum mode and with any prefix.
C6_FixedShapeFacets ==
  Returned =>
    \A j \in 1..Len(reqs) :
      /\ reqs[j] \in IndexFacets =>
           /\ (Pfx \o reqs[j]) \in DOMAIN Properties
           /\ Properties[Pfx \o reqs[j]] = [type |-> "integer"]
      /\ reqs[j] = "mip_era" =>
           /\ (Pfx \o reqs[j]) \in DOMAIN Properties
           /\ Properties[Pfx \o reqs[j]] = [const |-> "CMIP6"]

\* C9: the format overlay never fails the build: with creation_date (resp.
\* further_info_url) in the required list the build stops at that facet only
\* where its classification stops (a Parse error, a malformed CV), and a
\* returned schema carries format "date-time" (resp. "uri") on that facet's
\* fragment and on no other.
C9_FormatOverlay ==
  pc = "done" =>
    /\ \A j \in 1..Len(reqs) :
         ExpectedFormat(reqs[j]) # "" =>
           /\ RaisedAt(j) => exc \in {"JSONDecodeError", "ValueError"}
           /\ Returned => /\ (Pfx \o reqs[j]) \in DOMAIN Properties
                          /\ "format" \in DOMAIN Properties[Pfx \o reqs[j]]
                          /\ Properties[Pfx \o reqs[j]]["format"] = ExpectedFormat(reqs[j])
    /\ Returned =>
         \A k \in DOMAIN Properties :
           "format" \in DOMAIN Properties[k] =>
             \E j \in 1..Len(reqs) : ExpectedFormat(reqs[j]) # "" /\ k = Pfx \o reqs[j]

\* ---- claims about concurrent runs of create_json_schema
SingleRun == make_global_attrs_schema("None", TRUE, files)

\* the file a single run leaves behind
Document(sch) == [j \in 1..NumChunks |-> Chunk(sch, j)]

AllFinished == \A r \in Runs : rpc[r] \in {"done", "raised"}

RunResultsIndependent ==
  \A r \in Runs :
    /\ rpc[r] \in {"open", "write", "done"} =>
         (SingleRun.exc = "none" /\ rschema[r] = SingleRun.schema)
    /\ rpc[r] = "raised" => SingleRun.exc # "none"

FinalDocumentComplete ==
  (AllFinished /\ \E r \in Runs : rpc[r] = "done") =>
    outfile = Document(SingleRun.schema)

\* a run that has closed its complete document keeps it: no later step of
\* another run changes the persisted output
OutputsIndependent ==
  (\E r \in Runs : rpc[r] = "done" /\ outfile = Document(rschema[r])) => outfile' = outfile

\* C7 (as amended): under every interleaving no run alters a CV file, every
\* run builds the schema a single run builds, and once all runs have
\* finished the one shared output file holds the whole document a single
\* run writes.
C7_ConcurrentRunsConverge ==
  /\ [](RunResultsIndependent /\ FinalDocumentComplete)
  /\ [][files' = files]_vars

C7_Witness ==
  /\ \A r \in Runs : rpc[r] = "done"
  /\ outfile = Document(SingleRun.schema)
  /\ Len(SingleRun.schema["required"]) = 2

\* C7 (as claimed): additionally each run writes its own independent
\* output, so no run disturbs the document another run has written.
C7_IndependentOutputs ==
  /\ [](RunResultsIndependent /\ FinalDocumentComplete)
  /\ [][files' = files]_vars
  /\ [][OutputsIndependent]_vars

====
